---- MODULE Spec2Model ----
(***************************************************************************)
(* Model of the Bloch sphere visualizer control panel (src/main.py): the   *)
(* gate display and its capacity check, the single-qubit circuit, the      *)
(* rotation angle windows, clear, and the hand-over to the visualizer.     *)
(*                                                                         *)
(* Every Tk callback runs to completion on the one event loop, so each     *)
(* callback is one action.  A rotation button's callback ends in a nested  *)
(* mainloop; what it leaves behind is an open "Get Theta" window whose     *)
(* angle buttons close over the circuit object that was current at the     *)
(* press.  The windows are Tk roots of their own: they stay usable while   *)
(* the main window is, and after it is destroyed.                          *)
(*                                                                         *)
(* Not modelled: text typed into the Entry widget by hand, and the About   *)
(* window, which touches none of the state below.                          *)
(***************************************************************************)
EXTENDS Integers, Sequences, FiniteSets

\* ---------------------------------------------------------------- bounds
\* Every session of up to FreeLen presses is explored with any gates.
FreeLen == 3
\* Longer sessions are explored when they consist of at most MaxRuns runs
\* of one repeated gate.
MaxRuns == 2
\* Rotation buttons pressed per session, and "Get Theta" windows open at once.
MaxRotations == 2
\* Rotation buttons pressed in a session of more than FreeLen presses.
LongRotations == 1
\* While a window of a discarded circuit is open, at most MaxSplit operations
\* are explored in the discarded circuits and the new session together.
MaxSplit == 2

\* ------------------------------------------------------------- constants
\* The capacity tested by display_gate.
Limit == 10

NORMAL == "normal"
DISABLED == "disabled"

\* The buttons display_gate disables and clear re-enables.
gates ==
    {"x_gate", "y_gate", "z_gate", "Rx_gate", "Ry_gate", "Rz_gate",
     "s_gate", "sd_gate", "t_gate", "td_gate", "hadamard"}

\* The text each gate button passes to display_gate, character by character.
gate_input ==
    [x_gate |-> <<"X">>, y_gate |-> <<"Y">>, z_gate |-> <<"Z">>,
     Rx_gate |-> <<"R", "x">>, Ry_gate |-> <<"R", "y">>, Rz_gate |-> <<"R", "z">>,
     s_gate |-> <<"S">>, sd_gate |-> <<"S", "D">>, hadamard |-> <<"H">>,
     t_gate |-> <<"T">>, td_gate |-> <<"T", "D">>]

\* method with sd_gate calling circuit.s, as the About text lists it.
method_about ==
    [x_gate |-> "x", y_gate |-> "y", z_gate |-> "z",
     s_gate |-> "s", sd_gate |-> "s", hadamard |-> "h",
     t_gate |-> "t", td_gate |-> "tdg"]

\* The circuit method each fixed gate button calls after display_gate.
method ==
    [x_gate |-> "x", y_gate |-> "y", z_gate |-> "z",
     s_gate |-> "s", sd_gate |-> "sdg", hadamard |-> "h",
     t_gate |-> "t", td_gate |-> "tdg"]

\* The axis each rotation button passes to user_input.
axis == [Rx_gate |-> "x", Ry_gate |-> "y", Rz_gate |-> "z"]

FixedGates == DOMAIN method
RotationGates == DOMAIN axis
Keys == {"x", "y", "z"}

\* Real numbers of the form q/100 * pi^k.
Real(q, k) == [q |-> q, k |-> k]
Zero == Real(0, 0)
Pi == Real(100, 1)
Times(a, b) == Real((a.q * b.q) \div 100, a.k + b.k)

\* The multipliers of the eight angle buttons, as numbers.
Multipliers ==
    {Real(n, 0) : n \in {25, 50, 100, 200, -25, -50, -100, -200}}

\* One instruction of a QuantumCircuit.
Op(name, params) == [name |-> name, params |-> params, qubit |-> 0]

\* ------------------------------------------------------------------ state
VARIABLES
    display,    \* content of the Entry widget, a sequence of characters
    circuit,    \* instructions of the QuantumCircuit the global names
    get_input,  \* open "Get Theta" windows bound to that circuit: key -> number
    discarded,  \* circuits replaced by clear that open windows still refer to
    state,      \* the state option of each gate button
    root,       \* TRUE while the main window exists
    theta,      \* the global theta
    issued,     \* the gate buttons pressed since the last clear, in order
    call,       \* what the last callback handed to visualize_transition
    raised      \* the exception that escaped the last callback

vars ==
    <<display, circuit, get_input, discarded, state, root, theta, issued,
      call, raised>>

NoWindows == [k \in Keys |-> 0]
NoCall == [circuit |-> <<>>, outcome |-> "none"]
Open(w) == w["x"] + w["y"] + w["z"]

RECURSIVE Held(_)
\* Number of operations in a sequence of discarded circuits.
Held(ds) == IF ds = <<>> THEN 0 ELSE Len(Head(ds).data) + Held(Tail(ds))

RECURSIVE OpenIn(_)
\* Number of windows open on a sequence of discarded circuits.
OpenIn(ds) == IF ds = <<>> THEN 0 ELSE Open(Head(ds).get_input) + OpenIn(Tail(ds))

\* Number of runs of one repeated element in a sequence.
Runs(s) ==
    IF s = <<>> THEN 0
    ELSE 1 + Cardinality({i \in 2..Len(s) : s[i] # s[i - 1]})

Rotations(s) == Cardinality({i \in DOMAIN s : s[i] \in RotationGates})

\* The sessions the model explores.
Explored(g) ==
    LET s == Append(issued, g) IN
    /\ \/ Len(s) <= FreeLen
       \/ Runs(s) <= MaxRuns /\ Rotations(s) <= LongRotations
    /\ discarded = <<>> \/ Held(discarded) + Len(s) <= MaxSplit
    /\ g \in RotationGates =>
         /\ Rotations(s) <= MaxRotations
         /\ Open(get_input) + OpenIn(discarded) < MaxRotations

\* ------------------------------------------------------------ display_gate
\* list.count
Count(s, c) == Cardinality({i \in DOMAIN s : s[i] = c})

\* num_gates_pressed with search_word = ['R'].
num_gates_pressed_R(input_gates) ==
    Len(input_gates) - Count(input_gates, "R")

\* num_gates_pressed as display_gate computes it from the display content.
num_gates_pressed(input_gates) ==
    Len(input_gates) - (Count(input_gates, "R") + Count(input_gates, "D"))

\* Disable testing num_gates_pressed > 10.
Disable_late(input_gates, st) ==
    IF num_gates_pressed(input_gates) > Limit
    THEN [g \in gates |-> DISABLED]
    ELSE st

\* Disable with hadamard missing from the list of gates.
Disable_partial(input_gates, st) ==
    IF num_gates_pressed(input_gates) = Limit
    THEN [g \in gates |-> IF g = "hadamard" THEN st[g] ELSE DISABLED]
    ELSE st

\* The button states display_gate leaves for a display content.
Disable(input_gates, st) ==
    IF num_gates_pressed(input_gates) = Limit
    THEN [g \in gates |-> DISABLED]
    ELSE st

\* display_gate inserting at index 0 instead of END.
display_gate_front(text) ==
    /\ display' = text \o display
    /\ state' = Disable(text \o display, state)

display_gate(text) ==
    /\ display' = display \o text
    /\ state' = Disable(display \o text, state)

\* --------------------------------------------------------------- callbacks
Init ==
    /\ display = <<>>
    /\ circuit = <<>>
    /\ get_input = NoWindows
    /\ discarded = <<>>
    /\ state = [g \in gates |-> NORMAL]
    /\ root = TRUE
    /\ theta = Zero
    /\ issued = <<>>
    /\ call = NoCall
    /\ raised = "none"

\* A button invokes its command only while the window exists and the button
\* is not disabled.
Pressable(g) == root /\ state[g] # DISABLED

\* x_gate, y_gate, z_gate, s_gate, sd_gate, hadamard, t_gate, td_gate
PressFixed(g) ==
    /\ g \in FixedGates
    /\ Pressable(g)
    /\ Explored(g)
    /\ display_gate(gate_input[g])
    /\ circuit' = Append(circuit, Op(method[g], <<>>))
    /\ issued' = Append(issued, g)
    /\ call' = NoCall
    /\ raised' = "none"
    /\ UNCHANGED <<get_input, discarded, root, theta>>

\* PressRotation applying the rotation at once, with the global theta.
PressRotation_eager(g) ==
    /\ g \in RotationGates
    /\ Pressable(g)
    /\ Explored(g)
    /\ display_gate(gate_input[g])
    /\ get_input' = [get_input EXCEPT ![axis[g]] = @ + 1]
    /\ circuit' = Append(circuit, Op("r" \o axis[g], <<theta>>))
    /\ issued' = Append(issued, g)
    /\ call' = NoCall
    /\ raised' = "none"
    /\ UNCHANGED <<discarded, root, theta>>

\* Rx_gate, Ry_gate, Rz_gate: display_gate, then user_input opens a window
\* on the current circuit.
PressRotation(g) ==
    /\ g \in RotationGates
    /\ Pressable(g)
    /\ Explored(g)
    /\ display_gate(gate_input[g])
    /\ get_input' = [get_input EXCEPT ![axis[g]] = @ + 1]
    /\ issued' = Append(issued, g)
    /\ call' = NoCall
    /\ raised' = "none"
    /\ UNCHANGED <<circuit, discarded, root, theta>>

\* Rotation with theta = num, the factor pi forgotten.
Rotation_num(num, key) ==
    IF key = "x" THEN Op("rx", <<num>>)
    ELSE IF key = "y" THEN Op("ry", <<num>>)
    ELSE Op("rz", <<num>>)

\* The instruction change_theta appends for a multiplier and a key.
Rotation(num, key) ==
    LET th == Times(num, Pi) IN
    IF key = "x" THEN Op("rx", <<th>>)
    ELSE IF key = "y" THEN Op("ry", <<th>>)
    ELSE Op("rz", <<th>>)

\* change_theta without window.destroy().
change_theta_stay(num, key) ==
    /\ get_input[key] > 0
    /\ circuit' = Append(circuit, Rotation(num, key))
    /\ theta' = Zero
    /\ call' = NoCall
    /\ raised' = "none"
    /\ UNCHANGED <<display, get_input, discarded, state, root, issued>>

\* An angle button of a window bound to the current circuit.
change_theta(num, key) ==
    /\ get_input[key] > 0
    /\ circuit' = Append(circuit, Rotation(num, key))
    /\ theta' = Zero
    /\ get_input' = [get_input EXCEPT ![key] = @ - 1]
    /\ call' = NoCall
    /\ raised' = "none"
    /\ UNCHANGED <<display, discarded, state, root, issued>>

\* A discarded circuit stays in the model while a window refers to it.
Keep(ds) == SelectSeq(ds, LAMBDA d : Open(d.get_input) > 0)

\* An angle button of a window bound to a circuit that clear has replaced.
change_theta_discarded(num, i, key) ==
    /\ i \in DOMAIN discarded
    /\ discarded[i].get_input[key] > 0
    /\ discarded' =
         Keep([discarded EXCEPT
                 ![i].data = Append(@, Rotation(num, key)),
                 ![i].get_input[key] = @ - 1])
    /\ theta' = Zero
    /\ call' = NoCall
    /\ raised' = "none"
    /\ UNCHANGED <<display, circuit, get_input, state, root, issued>>

\* The window manager's close button of a "Get Theta" window.
close_input(key) ==
    /\ get_input[key] > 0
    /\ get_input' = [get_input EXCEPT ![key] = @ - 1]
    /\ call' = NoCall
    /\ raised' = "none"
    /\ UNCHANGED <<display, circuit, discarded, state, root, theta, issued>>

close_input_discarded(i, key) ==
    /\ i \in DOMAIN discarded
    /\ discarded[i].get_input[key] > 0
    /\ discarded' = Keep([discarded EXCEPT ![i].get_input[key] = @ - 1])
    /\ call' = NoCall
    /\ raised' = "none"
    /\ UNCHANGED <<display, circuit, get_input, state, root, theta, issued>>

\* Enable with the test never succeeding.
Enable_never(st) == st

\* Enable with the loop body applied to the tested button only.
Enable_x(st) ==
    IF st["x_gate"] = DISABLED THEN [st EXCEPT !["x_gate"] = NORMAL] ELSE st

\* The button states clear leaves.
Enable(st) ==
    IF st["x_gate"] = DISABLED THEN [g \in gates |-> NORMAL] ELSE st

\* clear with the open windows reading the global circuit when an angle is
\* chosen, so that they follow the replacement.
clear_late ==
    /\ root
    /\ display' = <<>>
    /\ circuit' = <<>>
    /\ state' = Enable(state)
    /\ issued' = <<>>
    /\ call' = NoCall
    /\ raised' = "none"
    /\ UNCHANGED <<get_input, discarded, root, theta>>

clear ==
    /\ root
    /\ display' = <<>>
    /\ circuit' = <<>>
    /\ get_input' = NoWindows
    /\ discarded' =
         IF Open(get_input) > 0
         THEN Append(discarded, [data |-> circuit, get_input |-> get_input])
         ELSE discarded
    /\ state' = Enable(state)
    /\ issued' = <<>>
    /\ call' = NoCall
    /\ raised' = "none"
    /\ UNCHANGED <<root, theta>>

\* What visualize_transition can do with a circuit.
Outcomes == {"returns", "VisualizationError", "Exception"}

\* Escapes with a bare except clause.
Escapes_none(outcome) == "none"

\* The exception that leaves visualize_circuit for an outcome of the call.
Escapes(outcome) ==
    IF outcome = "VisualizationError" \/ outcome = "returns" THEN "none" ELSE outcome

\* Survives with the window destroyed whatever the call does.
Survives_never(outcome) == FALSE

\* Survives with a handler that does not destroy the window.
Survives_always(outcome) == TRUE

\* Whether the main window survives visualize_circuit for an outcome.
Survives(outcome) == outcome # "VisualizationError"

visualize_circuit(outcome) ==
    /\ root
    /\ call' = [circuit |-> circuit, outcome |-> outcome]
    /\ raised' = Escapes(outcome)
    /\ root' = Survives(outcome)
    /\ UNCHANGED <<display, circuit, get_input, discarded, state, theta, issued>>

\* The Quit button.
quit ==
    /\ root
    /\ root' = FALSE
    /\ call' = NoCall
    /\ raised' = "none"
    /\ UNCHANGED <<display, circuit, get_input, discarded, state, theta, issued>>

Next ==
    \/ \E g \in FixedGates : PressFixed(g)
    \/ \E g \in RotationGates : PressRotation(g)
    \/ \E num \in Multipliers, key \in Keys : change_theta(num, key)
    \/ \E num \in Multipliers, i \in 1..MaxRotations, key \in Keys :
         change_theta_discarded(num, i, key)
    \/ \E key \in Keys : close_input(key)
    \/ \E i \in 1..MaxRotations, key \in Keys : close_input_discarded(i, key)
    \/ clear
    \/ \E outcome \in Outcomes : visualize_circuit(outcome)
    \/ quit

Spec == Init /\ [][Next]_vars

\* ----------------------------------------------------------------- claims
\* The display's logical token count: its characters, less the occurrences
\* of 'R' and of 'D'.
LogicalCount(s) ==
    Len(s) - Cardinality({i \in DOMAIN s : s[i] = "R" \/ s[i] = "D"})

Locked == \A g \in gates : state[g] = DISABLED
Unlocked == \A g \in gates : state[g] = NORMAL

\* The gate a fixed gate button stands for.
GateOf ==
    [x_gate |-> "x", y_gate |-> "y", z_gate |-> "z", hadamard |-> "h",
     s_gate |-> "s", sd_gate |-> "sdg", t_gate |-> "t", td_gate |-> "tdg"]

\* The rotation gate of an axis with the angle m * pi on qubit 0, for a
\* multiplier of m.q hundredths.
RotationOf(m, key) ==
    [name |-> CASE key = "x" -> "rx" [] key = "y" -> "ry" [] key = "z" -> "rz",
     params |-> <<[q |-> m.q, k |-> 1]>>,
     qubit |-> 0]

TwoCharacter == {"Rx_gate", "Ry_gate", "Rz_gate", "sd_gate", "td_gate"}

\* C1: in every reachable state the logical token count of the display is
\* at most 10.
C1_CountAtMostTen == LogicalCount(display) <= 10

C1_Witness == LogicalCount(display) = 10 /\ Len(display) > 10

\* C2: once 10 tokens have been issued all 11 gate buttons are disabled, and
\* while they are disabled every step other than clear leaves the display,
\* the button states and the tokens issued unchanged, opens no rotation
\* window, and changes the circuit at most by the rotation of an angle choice.
C2_LockedNoOp ==
    /\ [](root /\ Len(issued) = 10 => Locked)
    /\ [][root /\ Locked =>
            \/ clear
            \/ /\ display' = display
               /\ state' = state
               /\ issued' = issued
               /\ Open(get_input') <= Open(get_input)
               /\ OpenIn(discarded') <= OpenIn(discarded)
               /\ \/ circuit' = circuit
                  \/ \E m \in Multipliers, key \in Keys :
                       /\ get_input[key] > 0
                       /\ circuit' = Append(circuit, RotationOf(m, key))]_vars

C2_Witness == root /\ Locked /\ Len(issued) = 10 /\ Open(get_input) = 1

C4_ClearResets ==
    [][clear => display' = <<>> /\ circuit' = <<>> /\ Unlocked']_vars

\* After a clear taken with 10 tokens displayed and the window of the tenth,
\* a rotation, still open.
C4_Witness ==
    /\ root
    /\ display = <<>>
    /\ circuit = <<>>
    /\ Unlocked
    /\ Len(discarded) = 1
    /\ Len(discarded[1].data) = 9
    /\ Open(discarded[1].get_input) = 1

\* C5: the count display_gate computes from the display equals the number of
\* gate buttons pressed in the session; a two-character token pressed tenth
\* counts once.
C5_CountIsTokens == num_gates_pressed(display) = Len(issued)

C5_Witness ==
    /\ Len(issued) = 10
    /\ issued[10] \in TwoCharacter
    /\ num_gates_pressed(display) = 10

\* C6: choosing the multiplier m in a rotation window of axis key appends
\* exactly one operation to the window's circuit, the rotation gate of that
\* axis on qubit 0 with angle m * pi.
C6_RotationAngle ==
    [][/\ \A key \in Keys :
            get_input[key] > 0 =>
                \A m \in Multipliers :
                    change_theta(m, key) =>
                        circuit' = Append(circuit, RotationOf(m, key))
       /\ \A i \in DOMAIN discarded, key \in Keys :
            discarded[i].get_input[key] > 0 /\ Open(discarded[i].get_input) > 1 =>
                \A m \in Multipliers :
                    change_theta_discarded(m, i, key) =>
                        /\ Len(discarded') = Len(discarded)
                        /\ discarded'[i].data =
                             Append(discarded[i].data, RotationOf(m, key))
                        /\ circuit' = circuit]_vars

\* RX(pi/4) stored by the choice of 0.25 in a window of axis x.
C6_Witness ==
    /\ circuit # <<>>
    /\ circuit[Len(circuit)] = [name |-> "rx", params |-> <<[q |-> 25, k |-> 1]>>, qubit |-> 0]
    /\ issued[Len(issued)] = "Rx_gate"

\* C7: when visualize_transition raises VisualizationError, the main window
\* is destroyed and no exception leaves visualize_circuit.
C7_UnsupportedClosesWindow ==
    call.outcome = "VisualizationError" => ~root /\ raised = "none"

C7_Witness == call.outcome = "VisualizationError" /\ Len(call.circuit) = 10

C9_LastStep ==
    /\ issued = <<"hadamard", "x_gate", "Rz_gate">>
    /\ change_theta([q |-> 100, k |-> 0], "z")

C9_Operations ==
    <<[name |-> "h", params |-> <<>>, qubit |-> 0],
      [name |-> "x", params |-> <<>>, qubit |-> 0],
      [name |-> "rz", params |-> <<[q |-> 100, k |-> 1]>>, qubit |-> 0]>>

\* C9 as stated: the scenario ends with the operations [H, X, RZ(pi)], the
\* display "HXRZ", the logical count 3 and the buttons enabled.
C9_ScenarioAsStated ==
    [][C9_LastStep =>
         /\ circuit' = C9_Operations
         /\ display' = <<"H", "X", "R", "Z">>
         /\ LogicalCount(display') = 3
         /\ Unlocked']_vars

\* C9 amended: the scenario ends with the operations [H, X, RZ(pi)], the
\* display "HXRz", the logical count 3 and the buttons enabled.
C9_Scenario ==
    [][C9_LastStep =>
         /\ circuit' = C9_Operations
         /\ display' = <<"H", "X", "R", "z">>
         /\ LogicalCount(display') = 3
         /\ Unlocked']_vars

C9_Witness ==
    /\ issued = <<"hadamard", "x_gate", "Rz_gate">>
    /\ circuit = C9_Operations
    /\ Open(get_input) = 0

\* C10: the current circuit never has more operations than the display has
\* logical tokens, nor more than 10, and no circuit handed to the visualizer
\* has more than 10 operations.
C10_AtMostTenOperations ==
    /\ root => Len(circuit) <= LogicalCount(display)
    /\ Len(circuit) <= 10
    /\ Len(call.circuit) <= 10

C10_Witness == call.outcome = "returns" /\ Len(call.circuit) = 10

\* -------------------------------------------------------- claims, continued
\* The gate a displayed token names: the token's letters in lower case for
\* X, Y, Z, H, S and T, the dagger gates for SD and TD, and the rotation about
\* the axis for Rx, Ry and Rz.
RECURSIVE TokenGates(_)
TokenGates(s) ==
    IF s = <<>> THEN <<>>
    ELSE IF Len(s) >= 2 /\ s[1] = "R"
         THEN <<CASE s[2] = "x" -> "rx" [] s[2] = "y" -> "ry" [] OTHER -> "rz">>
              \o TokenGates(SubSeq(s, 3, Len(s)))
    ELSE IF Len(s) >= 2 /\ s[2] = "D"
         THEN <<IF s[1] = "S" THEN "sdg" ELSE "tdg">>
              \o TokenGates(SubSeq(s, 3, Len(s)))
    ELSE <<CASE s[1] = "X" -> "x" [] s[1] = "Y" -> "y" [] s[1] = "Z" -> "z"
              [] s[1] = "H" -> "h" [] s[1] = "S" -> "s" [] OTHER -> "t">>
         \o TokenGates(SubSeq(s, 2, Len(s)))

\* Rotation windows open, on the current circuit and on discarded ones.
TotalOpen == Open(get_input) + OpenIn(discarded)

\* C11: whenever no rotation window is open, the display's tokens and the
\* current circuit's operations have the same length and the i-th operation
\* is the gate the i-th token names.
C11_TokensMatchOperations ==
    root /\ TotalOpen = 0 =>
        /\ Len(circuit) = Len(TokenGates(display))
        /\ \A i \in DOMAIN circuit : circuit[i].name = TokenGates(display)[i]

\* C12: across a step that closes no rotation window, taken while a window
\* is open on the current circuit, the current circuit is unchanged.
C12_CircuitUntouchedWhileOpen ==
    [][Open(get_input) > 0 /\ TotalOpen' >= TotalOpen => circuit' = circuit]_vars

\* Rotation operations in a circuit, and rotation tokens in a display.
RotationOps(c) ==
    Cardinality({i \in DOMAIN c : c[i].name \in {"rx", "ry", "rz"}})
RotationTokens(d) == Cardinality({i \in DOMAIN d : d[i] = "R"})

\* C13: a step that opens a rotation window appends the rotation token to
\* the display, runs the capacity check and leaves the circuit as it is; the
\* circuit gains a rotation only in a step that closes a window by an angle
\* choice; and a step that closes a window, by a choice or without one,
\* leaves the token displayed.
C13_DeferredRotation ==
    /\ [][TotalOpen' > TotalOpen =>
            \E key \in Keys :
                /\ display' = display \o <<"R", key>>
                /\ get_input' = [get_input EXCEPT ![key] = @ + 1]
                /\ circuit' = circuit
                /\ LogicalCount(display') = 10 => Locked']_vars
    /\ [][RotationOps(circuit') > RotationOps(circuit) =>
            /\ \E key \in Keys : get_input' = [get_input EXCEPT ![key] = @ - 1]
            /\ Len(circuit') = Len(circuit) + 1
            /\ display' = display]_vars
    /\ [][TotalOpen' < TotalOpen =>
            /\ display' = display
            /\ circuit' = circuit \/ RotationOps(circuit') = RotationOps(circuit) + 1]_vars

\* A rotation token displayed whose window was closed without a choice.
C13_Witness ==
    /\ root
    /\ display = <<"R", "x">>
    /\ TotalOpen = 0
    /\ circuit = <<>>

\* C14: while the main window exists the gate buttons are all disabled if
\* the display's logical count is 10 and all enabled otherwise; the buttons
\* become disabled only in a step that appends a token and brings the count
\* to 10, and become enabled again only in a clear step.
C14_TwoStateTracker ==
    /\ [](root => (Locked <=> LogicalCount(display) = 10))
    /\ [](root => Locked \/ Unlocked)
    /\ [][~Locked /\ Locked' =>
            /\ \E g \in gates : display' = display \o gate_input[g]
            /\ LogicalCount(display') = 10]_vars
    /\ [][Locked /\ ~Locked' => clear]_vars

\* Enabled again after a clear taken with the buttons disabled.
C14_Witness ==
    /\ root
    /\ Unlocked
    /\ display = <<>>
    /\ Len(discarded) = 1
    /\ Len(discarded[1].data) = 9
    /\ discarded[1].get_input["y"] = 1

\* C15: an angle choice appends exactly one operation, a rotation, and
\* closes its window; the rotations in the current circuit and the windows
\* still open on it never outnumber the rotation tokens displayed; and an
\* angle can be chosen in an open window while the gate buttons are disabled.
C15_CommitsOnce ==
    /\ [][\A key \in Keys :
            get_input[key] > 0 =>
                \A m \in Multipliers :
                    change_theta(m, key) =>
                        /\ Len(circuit') = Len(circuit) + 1
                        /\ RotationOps(circuit') = RotationOps(circuit) + 1
                        /\ get_input' = [get_input EXCEPT ![key] = @ - 1]]_vars
    /\ [](RotationOps(circuit) + Open(get_input) <= RotationTokens(display))
    /\ [](Locked =>
            \A key \in Keys :
                get_input[key] > 0 =>
                    \A m \in Multipliers : ENABLED change_theta(m, key))

\* The rotation of a tenth token, chosen with the gate buttons disabled.
C15_Witness ==
    /\ Locked
    /\ Len(circuit) = 10
    /\ circuit[10].name = "rz"
    /\ display[Len(display) - 1] = "R"
    /\ TotalOpen = 0

\* C16: every step other than clear leaves the display unchanged or appends
\* to it exactly the token of the gate button pressed; steps that close a
\* rotation window or call the visualizer leave it unchanged; and only a
\* clear step empties a display that was not empty.
C16_AppendOnly ==
    /\ [][\/ clear
          \/ display' = display
          \/ \E g \in gates :
               /\ issued' = Append(issued, g)
               /\ display' = display \o gate_input[g]]_vars
    /\ [][TotalOpen' < TotalOpen \/ call'.outcome # "none" => display' = display]_vars
    /\ [][display # <<>> /\ display' = <<>> => clear]_vars

\* A display kept through an angle choice and a call of the visualizer.
C16_Witness ==
    /\ display = <<"H", "R", "z">>
    /\ Len(circuit) = 2
    /\ call.outcome = "returns"

\* C17: when no rotation token is displayed, every open window was opened
\* before the last clear; a step that closes one of them then leaves the
\* current circuit, the display and the button states unchanged, and an
\* angle chosen in it is appended to the discarded circuit the window was
\* opened on.
C17_BoundToOpeningCircuit ==
    /\ [][RotationTokens(display) = 0 /\ TotalOpen' < TotalOpen =>
            /\ circuit' = circuit
            /\ display' = display
            /\ state' = state]_vars
    /\ [][\A i \in DOMAIN discarded, key \in Keys :
            discarded[i].get_input[key] > 0 /\ Open(discarded[i].get_input) > 1 =>
                \A m \in Multipliers :
                    change_theta_discarded(m, i, key) =>
                        /\ Len(discarded'[i].data) = Len(discarded[i].data) + 1
                        /\ RotationOps(discarded'[i].data) =
                             RotationOps(discarded[i].data) + 1
                        /\ circuit' = circuit
                        /\ display' = display]_vars

\* A discarded circuit that has gained a rotation beside a new session of
\* two X presses, another window still open on it.
C17_Witness ==
    /\ issued = <<"x_gate", "x_gate">>
    /\ Len(circuit) = 2
    /\ RotationOps(circuit) = 0
    /\ Len(discarded) = 1
    /\ Len(discarded[1].data) = 1
    /\ RotationOps(discarded[1].data) = 1
    /\ Open(discarded[1].get_input) = 1

\* C18: while the main window exists all 11 gate buttons have the same
\* state, so that clear's test of x_gate leaves every button enabled.
C18_ButtonsAgree ==
    root =>
        /\ \A g \in gates, h \in gates : state[g] = state[h]
        /\ Enable(state) = [g \in gates |-> NORMAL]

C18_Witness ==
    /\ root
    /\ \A g \in gates : state[g] = DISABLED
    /\ Len(circuit) = 10
    /\ TotalOpen = 0

\* C19: a step in which visualize_transition returns hands over the current
\* circuit and leaves the circuit, the display, the button states, the open
\* rotation windows and the main window as they were; and the visualizer can
\* be called whenever the main window exists, the gate buttons enabled or not.
C19_VisualizeLeavesSession ==
    /\ [][call'.outcome = "returns" =>
            /\ root /\ root'
            /\ call'.circuit = circuit
            /\ circuit' = circuit
            /\ display' = display
            /\ state' = state
            /\ get_input' = get_input
            /\ discarded' = discarded]_vars
    /\ [](root => ENABLED visualize_circuit("returns"))

\* Nine operations handed over with the gate buttons disabled, the tenth
\* token a rotation whose window is still open.
C19_Witness ==
    /\ call.outcome = "returns"
    /\ root
    /\ Locked
    /\ Open(get_input) = 1
    /\ Len(call.circuit) = 9

====
